---- MODULE Spec2Model ----
(***************************************************************************)
(* A model of examples/whl.py: ZipFileInstaller, the installation of a     *)
(* wheel archive into a target directory.                                  *)
(*                                                                         *)
(* A path is a sequence of components; an absolute path starts with the    *)
(* component "/".  A file's content is a sequence of rows, a row a tuple   *)
(* of strings: binary data d is the one row <<d>>, a RECORD file is one    *)
(* row <<path, hash, size>> per entry.  An optional value (Python's None)  *)
(* is a set with at most one element.                                      *)
(***************************************************************************)
EXTENDS Integers, Sequences, FiniteSets, TLC

\* ---------------------------------------------------------------- bounds

\* The longest declared manifest (rows of the archive's RECORD).
MaxItems == 3

\* The largest size a RECORD row declares.
MaxSize == 3

\* The calls of install on one installer.
MaxCalls == 2

\* ----------------------------------------------------------------- paths

None == {}

Some(v) == {v}

TheValue(o) == CHOOSE v \in o : TRUE

RECURSIVE Join(_)
Join(parts) ==
    IF Len(parts) = 0 THEN ""
    ELSE IF Len(parts) = 1 THEN parts[1]
    ELSE parts[1] \o "/" \o Join(Tail(parts))

\* str(PurePosixPath)
PathStr(p) ==
    IF Len(p) > 0 /\ p[1] = "/" THEN "/" \o Join(Tail(p)) ELSE Join(p)

IsAbsolute(p) == Len(p) > 0 /\ p[1] = "/"

\* PurePath.joinpath: an absolute argument replaces the base.
joinpath(base, p) == IF IsAbsolute(p) THEN p ELSE base \o p

\* PurePath.parent
parent(p) == SubSeq(p, 1, Len(p) - 1)

\* PurePath.name
basename(p) == p[Len(p)]

\* PurePath.with_name
with_name(p, n) == Append(parent(p), n)

\* The location the operating system reaches by an absolute path: ".." steps
\* to the parent directory, and stays at the root.
RECURSIVE ResolveFrom(_, _)
ResolveFrom(at, rest) ==
    IF Len(rest) = 0 THEN at
    ELSE IF rest[1] = ".."
         THEN ResolveFrom(IF Len(at) > 1 THEN parent(at) ELSE at, Tail(rest))
         ELSE ResolveFrom(Append(at, rest[1]), Tail(rest))

Resolve(p) == ResolveFrom(<<"/">>, Tail(p))

IsPrefix(s, t) == Len(s) <= Len(t) /\ SubSeq(t, 1, Len(s)) = s

\* ------------------------------------------------------------ the inputs

\* options.dest
Directory == <<"/", "D">>

DistInfoDir == "pkg-1.0.dist-info"

PathA == <<"a">>

PathATmp == <<"a.tmp.X">>

PathRecord == <<DistInfoDir, "RECORD">>

PathInstaller == <<DistInfoDir, "INSTALLER">>

PathUp == <<"..", "e">>

PathAbs == <<"/", "e">>

PathMissing == <<"m">>

\* The paths a RECORD row of the model names.
PathUniverse ==
    {PathA, PathATmp, PathRecord, PathInstaller, PathUp, PathAbs, PathMissing}

Bytes(d) == << <<d>> >>

\* --installer
Names == {"X"}

\* -------------------------------------------------- installer.records

RecordItem(path, hash_, size) == [path |-> path, hash_ |-> hash_, size |-> size]

RECURSIVE FlattenRow(_)
FlattenRow(row) ==
    IF Len(row) = 0 THEN "" ELSE row[1] \o FlattenRow(Tail(row))

RECURSIVE Flatten(_)
Flatten(content) ==
    IF Len(content) = 0 THEN ""
    ELSE FlattenRow(content[1]) \o Flatten(Tail(content))

\* The hash tag and digest of a content: injective on the model's contents.
Digest(content) == "sha256=" \o Flatten(content)

Size(content) == Len(Flatten(content))

\* RecordItem.raise_for_validation: TRUE when it raises.
HashMismatch(item, data) ==
    item.hash_ # None /\ TheValue(item.hash_) # Digest(data)

ParsePath(s) == CHOOSE p \in PathUniverse : PathStr(p) = s

ParseInt(s) == CHOOSE n \in 0..MaxSize : ToString(n) = s

\* One csv row of a RECORD file: None is written as the empty field.
WriteRow(item) ==
    << PathStr(item.path),
       IF item.hash_ = None THEN "" ELSE TheValue(item.hash_),
       IF item.size = None THEN "" ELSE ToString(TheValue(item.size)) >>

ParseRow(row) ==
    RecordItem(ParsePath(row[1]),
               IF row[2] = "" THEN None ELSE Some(row[2]),
               IF row[3] = "" THEN None ELSE Some(ParseInt(row[3])))

write_record_file(items) == [i \in 1..Len(items) |-> WriteRow(items[i])]

parse_record_file(content) == [i \in 1..Len(content) |-> ParseRow(content[i])]

\* ------------------------------------------------------------ the archive

\* The archive's files other than its RECORD.
Payload ==
    (PathA :> Bytes("x")) @@ (PathATmp :> Bytes("t"))
    @@ (PathInstaller :> Bytes("pip"))
    @@ (PathUp :> Bytes("u")) @@ (PathAbs :> Bytes("r"))

Declared(p, how) ==
    CASE how = "none" -> RecordItem(p, None, None)
      [] how = "good" -> RecordItem(p, Some(Digest(Payload[p])), Some(Size(Payload[p])))
      [] how = "bad"  -> RecordItem(p, Some("sha256=bad"), Some(Size(Payload[p])))

\* The rows an archive's RECORD is made of: two rows may name the same path.
RowChoices ==
    { Declared(PathA, "good"), Declared(PathA, "bad"),
      Declared(PathATmp, "none"), Declared(PathATmp, "bad"),
      Declared(PathRecord, "none"), Declared(PathInstaller, "good"),
      Declared(PathUp, "none"), Declared(PathAbs, "none"),
      Declared(PathMissing, "none") }

\* The RECORDs of the model: up to MaxItems rows, no row twice.
DeclaredRecords ==
    { r \in UNION { [1..k -> RowChoices] : k \in 0..MaxItems } :
        \A i, j \in 1..Len(r) : r[i] = r[j] => i = j }

WheelKinds ==
    {"ok", "badstem", "unreadable", "nodistinfo", "twodistinfo", "norecord"}

WheelStem(kind) ==
    IF kind = "badstem" THEN <<"pkg", "1.0">>
    ELSE <<"pkg", "1.0", "py3", "none", "any">>

Restrict(f, S) == [x \in S |-> f[x]]

WheelEntries(kind, rows) ==
    CASE kind = "nodistinfo" ->
             Restrict(Payload, {p \in DOMAIN Payload : p[1] # DistInfoDir})
      [] kind = "norecord" -> Payload
      [] kind = "twodistinfo" ->
             Payload @@ (PathRecord :> write_record_file(rows))
             @@ (<<"Pkg-1.0.dist-info", "METADATA">> :> Bytes("M"))
      [] OTHER -> Payload @@ (PathRecord :> write_record_file(rows))

\* ------------------------------------------------- installer.layouts

\* The canonical form of a top-level entry name (case is folded).
Canonical(n) == IF n = "Pkg-1.0.dist-info" THEN "pkg-1.0.dist-info" ELSE n

\* DistInfo.find: the entries that are the project's metadata directory.
Candidates(project_name, project_version, entry_names) ==
    { n \in entry_names :
        Canonical(n) = Canonical(project_name \o "-" \o project_version \o ".dist-info") }

\* str.split("-", 2): at most three parts.
SplitStem(stem) == IF Len(stem) >= 3 THEN 3 ELSE Len(stem)

\* name.lstrip("/").split("/", 1)[0] of every name of the archive
EntryNames(entries) ==
    { (IF IsAbsolute(p) THEN Tail(p) ELSE p)[1] : p \in DOMAIN entries }

\* ------------------------------------------------------------- the state

VARIABLES
    wheel_path,       \* the fields of the wheel's file stem, split at "-"
    zip,              \* the archive: [readable, entries: path -> content]
    name,             \* ZipFileInstaller._name, the installer's name
    pc,               \* where the run is
    err,              \* the exception that ended the run, or ""
    zip_file_handle,  \* "none", "open" or "closed"
    dist_info,        \* the metadata directory DistInfo.find returned, or ""
    idx,              \* the row of RECORD that is installed next
    items,            \* install's dict of RecordItems, in insertion order
    w,                \* the atomic write in progress
    fs,               \* the files: location -> content
    dirs,             \* the directories
    pre,              \* the files before the run (before this call of install)
    reads,            \* the names opened in the archive by this call, in order
    log,              \* the file system's mutations of this call, in order
    entry,            \* "main" when the run is main's, "" when the caller's own
    calls,            \* the calls of install so far
    order             \* how the dict iterates, once it has: "insertion", "reversed"

vars ==
    << wheel_path, zip, name, pc, err, zip_file_handle, dist_info, idx, items,
       w, fs, dirs, pre, reads, log, entry, calls, order >>

\* What a run never changes.
inputs == <<wheel_path, zip, name>>

\* A mutation of the file system, with the phase it happens in.
Event(op, loc, data) == [op |-> op, loc |-> loc, data |-> data, by |-> pc]

Idle == [step |-> "idle", path |-> <<>>, temp |-> <<>>, data |-> <<>>, prev |-> {}]

\* DistInfo.record and DistInfo.installer
record == <<dist_info, "RECORD">>

installer == <<dist_info, "INSTALLER">>

\* ZipFile.open(name): the entry of that name
ZipHas(n) == \E p \in DOMAIN zip.entries : PathStr(p) = n

ZipRead(n) == zip.entries[CHOOSE p \in DOMAIN zip.entries : PathStr(p) = n]

\* The rows parse_record_file yields from the archive's RECORD.
Rows == parse_record_file(ZipRead(PathStr(record)))

\* The state of a location: its content, or nothing.
FileAt(files, loc) == IF loc \in DOMAIN files THEN {files[loc]} ELSE {}

OldFiles ==
    (Resolve(joinpath(Directory, PathA)) :> Bytes("old"))
    @@ (Resolve(joinpath(Directory, PathATmp)) :> Bytes("old"))
    @@ (Resolve(joinpath(Directory, PathInstaller)) :> Bytes("old"))

InitialFiles == { <<>>, OldFiles }

Ancestors(p) == { Resolve(SubSeq(p, 1, k)) : k \in 1..Len(p) }

Init ==
    /\ \E kind \in WheelKinds, rows \in DeclaredRecords :
        /\ kind # "ok" => Len(rows) <= 1
        /\ wheel_path = WheelStem(kind)
        /\ zip = [readable |-> kind # "unreadable",
                  entries |-> WheelEntries(kind, rows)]
    /\ name \in Names
    /\ pc = "Created"
    /\ err = ""
    /\ zip_file_handle = "none"
    /\ dist_info = ""
    /\ idx = 1
    /\ items = <<>>
    /\ w = Idle
    /\ fs \in InitialFiles
    /\ dirs = {Resolve(Directory)} \cup UNION { Ancestors(parent(loc)) : loc \in DOMAIN fs }
    /\ pre = fs
    /\ reads = <<>>
    /\ log = <<>>
    /\ entry = ""
    /\ calls = 0
    /\ order = ""

\* Raise with no with statement around the archive: it stays open.
Raise_leak(e) ==
    /\ pc' = "Failed"
    /\ err' = e
    /\ UNCHANGED zip_file_handle

\* An exception leaves the caller's with block: the archive, if open, is
\* closed on the way out.
Raise(e) ==
    /\ pc' = "Failed"
    /\ err' = e
    /\ zip_file_handle' = IF zip_file_handle = "open" THEN "closed" ELSE zip_file_handle

\* ----------------------------------------------------------------- main

\* main: ZipFileInstaller.create is not an attribute of the class.
main ==
    /\ pc = "Created"
    /\ entry = ""
    /\ entry' = "main"
    /\ Raise("AttributeError")
    /\ UNCHANGED <<calls, order, inputs, dist_info, idx, items, w, fs, dirs, pre,
                   reads, log>>

\* ------------------------------------------------------ from_wheel_path

\* from_wheel_path taking the first of several metadata directories.
from_wheel_path_first_candidate ==
    /\ pc = "Created"
    /\ IF SplitStem(wheel_path) # 3
       THEN Raise("ValueError") /\ UNCHANGED dist_info
       ELSE IF ~zip.readable
       THEN Raise("BadZipFile") /\ UNCHANGED dist_info
       ELSE LET found == Candidates(wheel_path[1], wheel_path[2], EntryNames(zip.entries))
            IN IF found = {}
               THEN /\ pc' = "Failed"
                    /\ err' = "MetadataResolutionError"
                    /\ zip_file_handle' = "closed"
                    /\ UNCHANGED dist_info
               ELSE /\ pc' = "Opened"
                    /\ zip_file_handle' = "open"
                    /\ dist_info' = CHOOSE n \in found : Canonical(n) = n
                    /\ UNCHANGED err
    /\ UNCHANGED <<entry, calls, order, inputs, idx, items, w, fs, dirs, pre, reads, log>>

from_wheel_path ==
    /\ pc = "Created"
    /\ IF SplitStem(wheel_path) # 3
       THEN Raise("ValueError") /\ UNCHANGED dist_info
       ELSE IF ~zip.readable
       THEN Raise("BadZipFile") /\ UNCHANGED dist_info
       ELSE LET found == Candidates(wheel_path[1], wheel_path[2], EntryNames(zip.entries))
            IN IF Cardinality(found) # 1
               THEN /\ pc' = "Failed"
                    /\ err' = "MetadataResolutionError"
                    /\ zip_file_handle' = "closed"
                    /\ UNCHANGED dist_info
               ELSE /\ pc' = "Opened"
                    /\ zip_file_handle' = "open"
                    /\ dist_info' = CHOOSE n \in found : TRUE
                    /\ UNCHANGED err
    /\ UNCHANGED <<entry, calls, order, inputs, idx, items, w, fs, dirs, pre, reads, log>>

\* --------------------------------------- _open_adjacent_tmp_for_write

\* The write of data at path, before its first step.
StartWrite(path, data) ==
    [step |-> "makedirs",
     path |-> path,
     temp |-> with_name(path, basename(path) \o ".tmp." \o name),
     data |-> data,
     prev |-> FileAt(fs, Resolve(path))]

\* _makedirs_exist_ok(path.parent)
makedirs_exist_ok ==
    /\ pc \in {"Extracting", "GeneratingMetadata", "WritingRecord"}
    /\ w.step = "makedirs"
    /\ dirs' = dirs \cup Ancestors(parent(w.path))
    /\ w' = [w EXCEPT !.step = "open"]
    /\ UNCHANGED <<entry, calls, order, inputs, pc, err, zip_file_handle, dist_info,
                   idx, items, fs, pre, reads, log>>

\* temp.open(mode="w..."): the temporary file is created, or truncated.
temp_open ==
    /\ pc \in {"Extracting", "GeneratingMetadata", "WritingRecord"}
    /\ w.step = "open"
    /\ fs' = (Resolve(w.temp) :> <<>>) @@ fs
    /\ log' = Append(log, Event("open", Resolve(w.temp), <<>>))
    /\ w' = [w EXCEPT !.step = "write"]
    /\ UNCHANGED <<entry, calls, order, inputs, pc, err, zip_file_handle, dist_info,
                   idx, items, dirs, pre, reads>>

\* f.write(...) in the with block, and the file's close at its end
f_write ==
    /\ pc \in {"Extracting", "GeneratingMetadata", "WritingRecord"}
    /\ w.step = "write"
    /\ fs' = (Resolve(w.temp) :> w.data) @@ fs
    /\ log' = Append(log, Event("write", Resolve(w.temp), w.data))
    /\ w' = [w EXCEPT !.step = "replace"]
    /\ UNCHANGED <<entry, calls, order, inputs, pc, err, zip_file_handle, dist_info,
                   idx, items, dirs, pre, reads>>

\* The files after temp.replace(path).
Replaced(files, temp, path) ==
    (Resolve(path) :> files[Resolve(temp)])
    @@ Restrict(files, DOMAIN files \ {Resolve(temp)})

\* raise_OSError with the rename in a finally clause.
raise_OSError_finally ==
    /\ pc \in {"Extracting", "GeneratingMetadata", "WritingRecord"}
    /\ w.step \in {"makedirs", "open", "write", "replace"}
    /\ Raise("FilesystemError")
    /\ IF w.step \in {"write", "replace"}
       THEN /\ fs' = Replaced(fs, w.temp, w.path)
            /\ log' = Append(log, Event("replace", Resolve(w.path), fs[Resolve(w.temp)]))
       ELSE UNCHANGED <<fs, log>>
    /\ UNCHANGED <<entry, calls, order, inputs, dist_info, idx, items, w, dirs, pre,
                   reads>>

\* A step of the atomic write raises OSError: the steps after it are not run.
raise_OSError ==
    /\ pc \in {"Extracting", "GeneratingMetadata", "WritingRecord"}
    /\ w.step \in {"makedirs", "open", "write", "replace"}
    /\ Raise("FilesystemError")
    /\ UNCHANGED <<entry, calls, order, inputs, dist_info, idx, items, w, fs, dirs,
                   pre, reads, log>>

\* ------------------------------------------------------------- install

\* Merge into a new dict: the entries of the paths before are dropped.
Merge_fresh(d, r) == <<r>>

\* Merge as dict.setdefault: the first entry of a path is kept.
Merge_setdefault(d, r) ==
    IF \E i \in 1..Len(d) : d[i].path = r.path THEN d ELSE Append(d, r)

\* items[r.path] = r: a dict keeps the place of a key it already holds.
Merge(d, r) ==
    IF \E i \in 1..Len(d) : d[i].path = r.path
    THEN [i \in 1..Len(d) |-> IF d[i].path = r.path THEN r ELSE d[i]]
    ELSE Append(d, r)

\* install's first step, on an open archive: the dict is new, and
\* _iter_installed_record_items opens the RECORD.
install ==
    /\ pc \in {"Opened", "Finalized"}
    /\ zip_file_handle = "open"
    /\ calls < MaxCalls
    /\ calls' = calls + 1
    /\ items' = <<>>
    /\ idx' = 1
    /\ pre' = fs
    /\ log' = <<>>
    /\ reads' = <<PathStr(record)>>
    /\ IF ZipHas(PathStr(record))
       THEN pc' = "Extracting" /\ UNCHANGED <<err, zip_file_handle>>
       ELSE Raise("EntryNotFound")
    /\ UNCHANGED <<entry, order, inputs, dist_info, w, fs, dirs>>

\* install on a closed archive that could still be read.
install_closed_unchecked ==
    /\ pc = "Closed"
    /\ zip_file_handle = "closed"
    /\ calls < MaxCalls
    /\ calls' = calls + 1
    /\ items' = <<>>
    /\ idx' = 1
    /\ pre' = fs
    /\ log' = <<>>
    /\ reads' = <<PathStr(record)>>
    /\ pc' = "Extracting"
    /\ UNCHANGED <<entry, order, inputs, err, zip_file_handle, dist_info, w, fs, dirs>>

\* install on an installer whose archive is closed: ZipFile.open raises.
install_closed ==
    /\ pc = "Closed"
    /\ zip_file_handle = "closed"
    /\ calls < MaxCalls
    /\ calls' = calls + 1
    /\ err' = "ValueError"
    /\ UNCHANGED <<entry, order, inputs, pc, zip_file_handle, dist_info, idx, items,
                   w, fs, dirs, pre, reads, log>>

\* _install_record_item without raise_for_validation.
install_record_item_unvalidated ==
    /\ pc = "Extracting"
    /\ w.step = "idle"
    /\ idx <= Len(Rows)
    /\ LET item == Rows[idx]
       IN /\ reads' = Append(reads, PathStr(item.path))
          /\ IF ~ZipHas(PathStr(item.path))
             THEN Raise("EntryNotFound") /\ UNCHANGED w
             ELSE /\ w' = StartWrite(joinpath(Directory, item.path),
                                     ZipRead(PathStr(item.path)))
                  /\ UNCHANGED <<pc, err, zip_file_handle>>
    /\ UNCHANGED <<entry, calls, order, inputs, dist_info, idx, items, fs, dirs, pre,
                   log>>

\* _install_record_item, to the start of its write: the entry is read and
\* validated.
install_record_item ==
    /\ pc = "Extracting"
    /\ w.step = "idle"
    /\ idx <= Len(Rows)
    /\ LET item == Rows[idx]
       IN /\ reads' = Append(reads, PathStr(item.path))
          /\ IF ~ZipHas(PathStr(item.path))
             THEN Raise("EntryNotFound") /\ UNCHANGED w
             ELSE IF HashMismatch(item, ZipRead(PathStr(item.path)))
             THEN Raise("HashMismatch") /\ UNCHANGED w
             ELSE /\ w' = StartWrite(joinpath(Directory, item.path),
                                     ZipRead(PathStr(item.path)))
                  /\ UNCHANGED <<pc, err, zip_file_handle>>
    /\ UNCHANGED <<entry, calls, order, inputs, dist_info, idx, items, fs, dirs, pre,
                   log>>

\* temp.replace(path) of a declared entry, and the yield of its item.
replace_record_item ==
    /\ pc = "Extracting"
    /\ w.step = "replace"
    /\ fs' = Replaced(fs, w.temp, w.path)
    /\ log' = Append(log, Event("replace", Resolve(w.path), w.data))
    /\ items' = Merge(items, Rows[idx])
    /\ idx' = idx + 1
    /\ w' = Idle
    /\ UNCHANGED <<entry, calls, order, inputs, pc, err, zip_file_handle, dist_info,
                   dirs, pre, reads>>

\* write_additional_metadata before the last row of the RECORD is installed.
write_additional_metadata_early ==
    /\ pc = "Extracting"
    /\ w.step = "idle"
    /\ idx >= Len(Rows)
    /\ pc' = "GeneratingMetadata"
    /\ w' = StartWrite(joinpath(Directory, installer), Bytes(name))
    /\ UNCHANGED <<entry, calls, order, inputs, err, zip_file_handle, dist_info, idx,
                   items, fs, dirs, pre, reads, log>>

\* write_additional_metadata without the metadata directory in the path.
write_additional_metadata_at_root ==
    /\ pc = "Extracting"
    /\ w.step = "idle"
    /\ idx > Len(Rows)
    /\ pc' = "GeneratingMetadata"
    /\ w' = StartWrite(joinpath(Directory, <<"INSTALLER">>), Bytes(name))
    /\ UNCHANGED <<entry, calls, order, inputs, err, zip_file_handle, dist_info, idx,
                   items, fs, dirs, pre, reads, log>>

\* The RECORD is exhausted; _iter_installed_scripts yields nothing;
\* _write_additional_metadata starts the write of INSTALLER.
write_additional_metadata ==
    /\ pc = "Extracting"
    /\ w.step = "idle"
    /\ idx > Len(Rows)
    /\ pc' = "GeneratingMetadata"
    /\ w' = StartWrite(joinpath(Directory, installer), Bytes(name))
    /\ UNCHANGED <<entry, calls, order, inputs, err, zip_file_handle, dist_info, idx,
                   items, fs, dirs, pre, reads, log>>

\* record_items on a list: the RECORD's entry is appended.
record_items_append(d) == Append(d, RecordItem(record, None, None))

\* _write_record's dict, with the RECORD's own entry.
record_items(d) == Merge(d, RecordItem(record, None, None))

\* The orders a dict iterates in: insertion order (Python 3.7 and later), or
\* another order (a hash table's, before; the reverse stands for these).
DictOrders == {"insertion", "reversed"}

Reverse(s) == [i \in 1..Len(s) |-> s[Len(s) + 1 - i]]

\* installed_items.values()
values(d, o) == IF o = "reversed" THEN Reverse(d) ELSE d

\* write_record with a dict that iterates in a new order at every call.
write_record_any_order ==
    /\ pc = "GeneratingMetadata"
    /\ w.step = "replace"
    /\ fs' = Replaced(fs, w.temp, w.path)
    /\ log' = Append(log, Event("replace", Resolve(w.path), w.data))
    /\ items' = record_items(Merge(items, RecordItem(installer, None, None)))
    /\ pc' = "WritingRecord"
    /\ \E o \in DictOrders :
        /\ order' = o
        /\ w' = [StartWrite(joinpath(Directory, record),
                            write_record_file(values(items', o)))
                    EXCEPT !.prev = FileAt(fs', Resolve(joinpath(Directory, record)))]
    /\ UNCHANGED <<entry, calls, inputs, err, zip_file_handle, dist_info, idx,
                   dirs, pre, reads>>

\* temp.replace(path) of INSTALLER, the yield of its item, and _write_record
\* to the start of its write.
write_record ==
    /\ pc = "GeneratingMetadata"
    /\ w.step = "replace"
    /\ fs' = Replaced(fs, w.temp, w.path)
    /\ log' = Append(log, Event("replace", Resolve(w.path), w.data))
    /\ items' = record_items(Merge(items, RecordItem(installer, None, None)))
    /\ pc' = "WritingRecord"
    /\ \E o \in DictOrders :
        /\ order \in {"", o}
        /\ order' = o
        /\ w' = [StartWrite(joinpath(Directory, record),
                            write_record_file(values(items', o)))
                    EXCEPT !.prev = FileAt(fs', Resolve(joinpath(Directory, record)))]
    /\ UNCHANGED <<entry, calls, inputs, err, zip_file_handle, dist_info, idx,
                   dirs, pre, reads>>

\* temp.replace(path) of RECORD: install returns.
replace_record ==
    /\ pc = "WritingRecord"
    /\ w.step = "replace"
    /\ fs' = Replaced(fs, w.temp, w.path)
    /\ log' = Append(log, Event("replace", Resolve(w.path), w.data))
    /\ pc' = "Finalized"
    /\ w' = Idle
    /\ UNCHANGED <<entry, calls, order, inputs, err, zip_file_handle, dist_info, idx,
                   items, dirs, pre, reads>>

\* install has returned and the caller's with block ends: the archive is
\* closed.
close ==
    /\ pc = "Finalized"
    /\ zip_file_handle = "open"
    /\ zip_file_handle' = "closed"
    /\ pc' = "Closed"
    /\ UNCHANGED <<entry, calls, order, inputs, err, dist_info, idx, items, w, fs,
                   dirs, pre, reads, log>>

Next ==
    \/ main
    \/ from_wheel_path
    \/ install
    \/ install_closed
    \/ install_record_item
    \/ makedirs_exist_ok
    \/ temp_open
    \/ f_write
    \/ raise_OSError
    \/ replace_record_item
    \/ write_additional_metadata
    \/ write_record
    \/ replace_record
    \/ close

Spec == Init /\ [][Next]_vars

\* ---------------------------------------------------------- the claims

Range(f) == { f[i] : i \in DOMAIN f }

Installed == pc \in {"Finalized", "Closed"}

\* The location of a path of the archive in the target directory.
TargetOf(p) == Resolve(joinpath(Directory, p))

\* The rows of the RECORD file the run wrote.
FinalManifest == fs[TargetOf(record)]

\* The archive's RECORD was found and read: its rows are known.
RecordRead == dist_info # "" /\ ZipHas(PathStr(record)) /\ pc # "Opened"

\* C1: after a successful install every path the archive's RECORD declares
\* exists in the target directory with the content of its archive entry, and
\* the final manifest has a row with its declared hash and size; for all sets
\* of declared paths.
C1_DeclaredFilesInstalled ==
    Installed =>
        \A i \in 1..Len(Rows) :
            /\ TargetOf(Rows[i].path) \in DOMAIN fs
            /\ fs[TargetOf(Rows[i].path)] = ZipRead(PathStr(Rows[i].path))
            /\ WriteRow(Rows[i]) \in Range(FinalManifest)

\* The rows of the archive's RECORD whose hash differs from the hash of the
\* archive's entry.
Mismatched ==
    { i \in 1..Len(Rows) :
        /\ ZipHas(PathStr(Rows[i].path))
        /\ HashMismatch(Rows[i], ZipRead(PathStr(Rows[i].path))) }

\* C2: when a declared file's hash differs from its recorded hash the install
\* aborts with a hash mismatch, and in every state of the run that file's
\* path in the target directory is absent or holds what it held before the run.
C2_MismatchedNeverWritten ==
    RecordRead =>
        \A i \in Mismatched :
            /\ ~Installed
            /\ idx <= i
            /\ (pc = "Failed" /\ idx = i /\ w.step = "idle" /\ Len(reads) = i + 1)
                    => err = "HashMismatch"
            /\ \/ TargetOf(Rows[i].path) \notin DOMAIN fs
               \/ FileAt(fs, TargetOf(Rows[i].path)) = FileAt(pre, TargetOf(Rows[i].path))

\* The target locations of the atomic writes of an installation.
WriteTargets ==
    { TargetOf(Rows[i].path) : i \in 1..Len(Rows) }
    \cup { TargetOf(installer), TargetOf(record) }

\* The complete contents the run's atomic writes have published at loc.
Published(loc) ==
    { log[k].data : k \in { j \in 1..Len(log) : log[j].op = "replace" /\ log[j].loc = loc } }

\* C3: in every state of an installation, every target of one of its atomic
\* writes holds its previous content, no file, or a complete new content.
C3_NoPartialAtTarget ==
    RecordRead =>
        \A loc \in WriteTargets :
            FileAt(fs, loc) \subseteq FileAt(pre, loc) \cup Published(loc)

\* C4: when the write into the temporary file fails, the rename is not
\* performed: the target keeps the state it had before the write began, the
\* temporary file remains, and the failure reaches the caller.
C4_FailedWriteLeavesTarget ==
    (w.step = "write" /\ pc = "Failed") =>
        /\ FileAt(fs, Resolve(w.path)) = w.prev
        /\ Resolve(w.temp) \in DOMAIN fs
        /\ log[Len(log)].op = "open"
        /\ log[Len(log)].loc = Resolve(w.temp)
        /\ err = "FilesystemError"

C4_Witness ==
    /\ w.step = "write"
    /\ pc = "Failed"
    /\ w.prev = {Bytes("old")}

\* The rows of the final manifest whose path is p.
ManifestRowsOf(p) ==
    { i \in 1..Len(FinalManifest) : FinalManifest[i][1] = PathStr(p) }

\* C5: after a successful install the final manifest has exactly one row for
\* the manifest's own path, with empty hash and empty size, also when the
\* archive's RECORD lists the manifest path.
C5_OneSelfEntry ==
    Installed =>
        /\ Cardinality(ManifestRowsOf(record)) = 1
        /\ \A i \in ManifestRowsOf(record) :
                FinalManifest[i] = <<PathStr(record), "", "">>

C5_Witness ==
    /\ Installed
    /\ \E i \in 1..Len(Rows) : Rows[i].path = record

\* C6: after a successful install the final manifest has exactly one row for
\* the INSTALLER file, and the INSTALLER file of the target directory holds
\* the installer's name, also when the archive declares and ships one.
C6_InstallerIdentity ==
    Installed =>
        /\ Cardinality(ManifestRowsOf(installer)) = 1
        /\ TargetOf(installer) \in DOMAIN fs
        /\ fs[TargetOf(installer)] = Bytes(name)

C6_Witness ==
    /\ Installed
    /\ \E i \in 1..Len(Rows) : Rows[i].path = installer
    /\ ZipRead(PathStr(installer)) # Bytes(name)

\* What the phases of a successful install yield, in order.
Produced ==
    LET rows == Rows
    IN [i \in 1..Len(rows) |-> [phase |-> "declared", item |-> rows[i]]]
       \o << [phase |-> "metadata", item |-> RecordItem(installer, None, None)],
             [phase |-> "finalize", item |-> RecordItem(record, None, None)] >>

LastProduced(p) ==
    LET prod == Produced
    IN prod[CHOOSE k \in 1..Len(prod) :
                /\ prod[k].item.path = p
                /\ \A j \in (k + 1)..Len(prod) : prod[j].item.path # p]

\* C7: the merge is last-write-wins by path: in the final set every path
\* occurs once, with the entry of the latest phase that produced it.
C7_LastWriteWins ==
    Installed =>
        /\ LET prod == Produced
           IN { items[i].path : i \in 1..Len(items) }
                = { prod[k].item.path : k \in 1..Len(prod) }
        /\ \A i, j \in 1..Len(items) : items[i].path = items[j].path => i = j
        /\ \A i \in 1..Len(items) : items[i] = LastProduced(items[i].path).item

C7_Witness ==
    /\ Installed
    /\ \E k \in 1..Len(Rows) :
            /\ Rows[k].path = installer
            /\ Rows[k].hash_ # None
            /\ LastProduced(installer).phase = "metadata"

\* C8: when a declared entry fails with a hash mismatch or is absent from the
\* archive the install aborts at once: no later entry is read or written, the
\* metadata and finalize phases are not entered, and every file written for
\* an earlier entry stays on disk with the content that was written.
C8_AbortKeepsEarlierFiles ==
    (RecordRead /\ pc = "Failed" /\ err \in {"HashMismatch", "EntryNotFound"}) =>
        /\ reads = <<PathStr(record)>> \o [i \in 1..idx |-> PathStr(Rows[i].path)]
        /\ Len(log) = 3 * (idx - 1)
        /\ w.step = "idle"
        /\ items = <<>> \/ idx > 1
        /\ \A j \in 1..(idx - 1) :
                /\ TargetOf(Rows[j].path) \in DOMAIN fs
                /\ fs[TargetOf(Rows[j].path)] = ZipRead(PathStr(Rows[j].path))

\* The archive source cannot be resolved.
Unresolvable ==
    \/ SplitStem(wheel_path) # 3
    \/ ~zip.readable
    \/ Cardinality(Candidates(wheel_path[1], wheel_path[2], EntryNames(zip.entries))) # 1

\* C9: when the archive source cannot be resolved the run ends failed, with
\* no write under the target directory, and install is never run.
C9_ResolutionFailureWritesNothing ==
    Unresolvable =>
        /\ pc \in {"Created", "Failed"}
        /\ (pc = "Failed" /\ entry = "")
                => err \in {"ValueError", "BadZipFile", "MetadataResolutionError"}
        /\ fs = pre
        /\ log = <<>>
        /\ reads = <<>>
        /\ items = <<>>
        /\ w = Idle

C9_Witness ==
    /\ pc = "Failed"
    /\ err = "MetadataResolutionError"
    /\ Cardinality(Candidates(wheel_path[1], wheel_path[2], EntryNames(zip.entries))) = 2

\* C10: every file an installation creates or modifies lies beneath the
\* target directory, for every declared path.
C10_WritesBeneathTarget ==
    \A k \in 1..Len(log) :
        /\ IsPrefix(Resolve(Directory), log[k].loc)
        /\ log[k].loc # Resolve(Directory)

\* The locations this call of install created or replaced and that are
\* still present.
LeftByRun ==
    { loc \in DOMAIN fs : \E k \in 1..Len(log) : log[k].loc = loc }

\* The locations of the paths of the final manifest.
ManifestLocations ==
    { TargetOf(ParsePath(FinalManifest[i][1])) : i \in 1..Len(FinalManifest) }

\* C11: at the end of a successful installation the files the run created or
\* replaced and left in the target directory are exactly the files at the
\* paths of the final manifest.
C11_LeftFilesAreRecorded ==
    Installed => LeftByRun = ManifestLocations

\* A valid archive: its source resolves, it holds its RECORD, and every row
\* of the RECORD names an entry of the archive whose hash matches.
ValidArchive ==
    /\ ~Unresolvable
    /\ PathRecord \in DOMAIN zip.entries
    /\ LET rows == parse_record_file(zip.entries[PathRecord])
       IN \A i \in 1..Len(rows) :
            /\ ZipHas(PathStr(rows[i].path))
            /\ ~HashMismatch(rows[i], ZipRead(PathStr(rows[i].path)))

\* C12: a run of main over a valid archive performs one full installation
\* and ends with success: it does not fail, unless the file system fails it.
C12_MainInstalls ==
    (entry = "main" /\ ValidArchive /\ pc = "Failed") => err = "FilesystemError"

\* A step is possible: ENABLED <<Next>>_vars, written out.
CanStep ==
    \/ pc \notin {"Failed", "Closed"}
    \/ pc = "Closed" /\ calls < MaxCalls

CanStepIsEnabled == CanStep <=> ENABLED <<Next>>_vars

\* The run under the scheduling of the code: the thread of control takes its
\* next step while there is one (weak fairness of Next, with CanStep for
\* ENABLED <<Next>>_vars), and the caller leaves its with block.
FairSpec ==
    /\ Spec
    /\ []<>(~CanStep) \/ []<><<Next>>_vars
    /\ WF_vars(close)

\* C13: in every run the archive opened by from_wheel_path is eventually
\* closed, when install completes and when a phase raises, and no entry of
\* the archive is read once it is closed.
C13_ArchiveReleased ==
    /\ (zip_file_handle = "open") ~> (zip_file_handle = "closed")
    /\ [][zip_file_handle = "closed" => reads' = reads]_vars

\* The archive is closed by an error raised after entries were read.
C13_Witness ==
    /\ zip_file_handle = "closed"
    /\ pc = "Failed"
    /\ err = "HashMismatch"
    /\ Len(reads) > 1

\* The order of the phases of one call of install.
PhaseRank(p) ==
    CASE p = "Created" -> 0
      [] p = "Opened" -> 1
      [] p = "Extracting" -> 2
      [] p = "GeneratingMetadata" -> 3
      [] p = "WritingRecord" -> 4
      [] p = "Finalized" -> 5
      [] p = "Closed" -> 6
      [] p = "Failed" -> 7

\* A step stays in its phase, enters the next one, or fails.
NextPhase ==
    \/ pc' = pc
    \/ PhaseRank(pc') = PhaseRank(pc) + 1
    \/ pc' = "Failed" /\ pc # "Closed"

\* The mutations of the file system an atomic write of data at path makes.
WriteEvents(path, data, phase) ==
    LET temp == Resolve(with_name(path, basename(path) \o ".tmp." \o name))
    IN << [op |-> "open", loc |-> temp, data |-> <<>>, by |-> phase],
          [op |-> "write", loc |-> temp, data |-> data, by |-> phase],
          [op |-> "replace", loc |-> Resolve(path), data |-> data, by |-> phase] >>

\* The mutations of a complete call of install, but for the data of the
\* RECORD's write: the declared entries in order, INSTALLER, RECORD.
LogInOrder ==
    LET rows == Rows
        n == Len(rows)
    IN /\ Len(log) = 3 * (n + 2)
       /\ \A i \in 1..n :
            SubSeq(log, 3 * i - 2, 3 * i)
                = WriteEvents(joinpath(Directory, rows[i].path),
                              ZipRead(PathStr(rows[i].path)), "Extracting")
       /\ SubSeq(log, 3 * n + 1, 3 * n + 3)
            = WriteEvents(joinpath(Directory, installer), Bytes(name),
                          "GeneratingMetadata")
       /\ SubSeq(log, 3 * n + 4, 3 * n + 6)
            = WriteEvents(joinpath(Directory, record), FinalManifest, "WritingRecord")

\* C14: the phases of an installation follow one another in the fixed order,
\* none entered twice and none skipped within a call of install, and the
\* writes of a successful call are those of the declared entries, then of
\* INSTALLER, then of the final manifest, whose rename is the last mutation.
C14_PhaseOrder ==
    /\ [](Installed => LogInOrder)
    /\ [][NextPhase \/ (pc = "Finalized" /\ calls' = calls + 1)]_vars

C14_Witness ==
    /\ Installed
    /\ Len(Rows) >= 2
    /\ log[Len(log)].loc = TargetOf(record)

\* The RECORD of the archive lists distinct paths, none of them the path of
\* INSTALLER or of RECORD.
DistinctPlainRows ==
    LET rows == Rows
    IN /\ \A i, j \in 1..Len(rows) : rows[i].path = rows[j].path => i = j
       /\ \A i \in 1..Len(rows) : rows[i].path \notin {installer, record}

\* C15: for an archive whose RECORD lists distinct paths, none of them the
\* path of INSTALLER or of RECORD, and whose hashes match, the final manifest
\* is the declared rows unchanged in declared order, then the row of
\* INSTALLER, then the row of RECORD, both with no hash and no size.
C15_ManifestRowsInOrder ==
    (Installed /\ DistinctPlainRows) =>
        FinalManifest = ZipRead(PathStr(record))
                            \o << <<PathStr(installer), "", "">>,
                                  <<PathStr(record), "", "">> >>

\* The directories before the run: those of the files before the run.
InitialDirs ==
    {Resolve(Directory)} \cup UNION { Ancestors(parent(loc)) : loc \in DOMAIN pre }

\* C16: when the first declared entry fails hash validation the installation
\* leaves the target directory as it was before the run: no file, no
\* temporary file and no directory is created, and the run ends with a hash
\* mismatch.
C16_FirstMismatchWritesNothing ==
    (RecordRead /\ calls = 1 /\ 1 \in Mismatched) =>
        /\ fs = pre
        /\ dirs = InitialDirs
        /\ log = <<>>
        /\ items = <<>>
        /\ pc \in {"Extracting", "Failed"}
        /\ pc = "Failed" => err = "HashMismatch"

C16_Witness ==
    /\ RecordRead
    /\ 1 \in Mismatched
    /\ Len(Rows) >= 2
    /\ pc = "Failed"
    /\ err = "HashMismatch"
    /\ pre # <<>>

\* The paths of install's dict.
Keys(d) == { d[i].path : i \in 1..Len(d) }

\* The run has renamed a complete file of the archive's content to p's place.
Written(p) ==
    \E k \in 1..Len(log) :
        /\ log[k].op = "replace"
        /\ log[k].loc = TargetOf(p)
        /\ log[k].by = "Extracting" => log[k].data = ZipRead(PathStr(p))

\* The serializations of the dict: the writes of the finalize step.
Serializations ==
    { k \in 1..Len(log) : log[k].op = "write" /\ log[k].by = "WritingRecord" }

\* The dict in every state of a call of install.
InstalledSetGrows ==
    /\ pc \in {"Created", "Opened"} => items = <<>>
    /\ (pc = "Extracting" /\ idx = 1) => items = <<>>
    /\ items # <<>> =>
        LET rows == Rows
        IN /\ \A j \in 1..(idx - 1) :
                /\ ZipHas(PathStr(rows[j].path))
                /\ ~HashMismatch(rows[j], ZipRead(PathStr(rows[j].path)))
           /\ \A i \in 1..Len(items) :
                (pc = "Extracting" \/ items[i].path # record)
                    => Written(items[i].path)
    /\ Cardinality(Serializations) <= 1
    /\ Installed =>
        \E k \in Serializations :
            log[k].data = write_record_file(values(items, order))

\* C17: the dict of a call of install is empty before the first declared
\* entry is extracted, never loses a path in a later step, gets the entry of
\* a declared path only after that path's file was validated and written,
\* and is serialized exactly once, by the finalize step.
C17_InstalledSetMonotone ==
    /\ []InstalledSetGrows
    /\ [][calls' = calls => Keys(items) \subseteq Keys(items')]_vars

C17_Witness ==
    /\ pc = "WritingRecord"
    /\ w.step = "replace"
    /\ Len(items) = 4
    /\ Cardinality(Serializations) = 1

\* C18: once the archive is closed, a call of install on the installer fails,
\* and no step writes under the target directory or changes a file of the
\* completed installation.
C18_ClosedIsTerminal ==
    [][zip_file_handle = "closed" =>
            /\ zip_file_handle' = "closed"
            /\ pc' = pc
            /\ err' = "ValueError"
            /\ <<fs, dirs, log, items, w>>' = <<fs, dirs, log, items, w>>]_vars

\* install was called on the closed installer of a completed installation.
C18_Witness ==
    /\ pc = "Closed"
    /\ err = "ValueError"
    /\ Len(Rows) >= 1
    /\ Len(log) = 3 * (Len(Rows) + 2)
    /\ fs # pre

\* A call of install after a completed one, on the open installer.
Reinstalled == calls >= 2 /\ err = "" /\ pc # "Failed"

\* C19: a second call of install into the directory a first successful call
\* produced succeeds, and leaves the same files with the same contents, the
\* final manifest with the same rows in the same order among them.
C19_InstallIdempotent ==
    /\ (calls >= 2 /\ pc = "Failed") => err = "FilesystemError"
    /\ (Reinstalled /\ Installed) =>
        /\ fs = pre
        /\ dirs = InitialDirs
        /\ FinalManifest = pre[TargetOf(record)]

C19_Witness ==
    /\ Reinstalled
    /\ pc = "Finalized"
    /\ Len(Rows) = 2
    /\ Len(log) = 3 * (Len(Rows) + 2)
    /\ fs = pre

====
